---- MODULE Spec2Model ----
(***************************************************************************)
(* Model of the TriCore DAG-to-DAG instruction selector                    *)
(* (lib/Target/TriCore/TriCoreISelDAGToDAG.cpp): the addressing-mode       *)
(* matcher (MatchWrapper, MatchAddressBase, MatchAddress, SelectAddr_new)  *)
(* and the constant materializer (SelectConstant and its bit helpers).     *)
(*                                                                         *)
(* Return convention of the Match* functions, as in the source: TRUE means *)
(* "could not match", FALSE means "matched".                               *)
(*                                                                         *)
(* Bit patterns (APInt values, uint32_t/uint64_t) are little-endian        *)
(* sequences of 16-bit limbs: an i32 is <<l0, l1>>, an i64 is              *)
(* <<l0, l1, l2, l3>>.  All arithmetic on them is done limb by limb so     *)
(* that the C++ widths (and their wrap-around) are kept.                   *)
(***************************************************************************)
EXTENDS Integers, Sequences, FiniteSets, TLC

(***************************************************************************)
(* Bounds of the model.                                                    *)
(***************************************************************************)
\* opaque register-valued nodes r1 .. rNumRegs
NumRegs == 2
\* frame indices 0 .. NumFrameIndex - 1
NumFrameIndex == 1
\* constant leaves of address expressions carry 1 .. MaxImm (and -4)
MaxImm == 2
\* global values g1 .. gNumGlobals; global k is referenced at byte offset k
NumGlobals == 2
\* i32 constants: low halves within LoSpan of a boundary of SelectConstant,
\* high halves within HiSpan of 0, 0x8000 and 0xffff
LoSpan == 8
HiSpan == 2
\* i64 constants with a hole: a run of at most GapRun bits and a single bit
GapRun == 2

(***************************************************************************)
(* 16-bit limbs.                                                           *)
(***************************************************************************)
LimbBase == 2^16
LimbMax == LimbBase - 1
LimbSign == 2^15

RECURSIVE And16(_, _)
And16(a, b) ==
    IF a = 0 \/ b = 0 THEN 0
    ELSE (a % 2) * (b % 2) + 2 * And16(a \div 2, b \div 2)

\* bitwise and of two patterns of the same width
AndW(a, b) == [i \in DOMAIN a |-> And16(a[i], b[i])]

IsZeroW(a) == \A i \in DOMAIN a : a[i] = 0

\* the i32 pattern of a (small) integer, two's complement
I32(v) == <<v % LimbBase, (v \div LimbBase) % LimbBase>>

\* ConstantSDNode::getSExtValue of an i32 pattern, as an integer
SExtValue32(p) ==
    IF p[2] >= LimbSign THEN (p[2] - LimbBase) * LimbBase + p[1]
    ELSE p[2] * LimbBase + p[1]

\* the i64 pattern of a (small) integer, two's complement
I64(v) ==
    <<v % LimbBase,
      (v \div LimbBase) % LimbBase,
      ((v \div LimbBase) \div LimbBase) % LimbBase,
      (((v \div LimbBase) \div LimbBase) \div LimbBase) % LimbBase>>

\* ConstantSDNode::getZExtValue and getSExtValue as uint64_t / int64_t
ZExt64(p) == IF Len(p) = 4 THEN p ELSE p \o <<0, 0>>
SExt64(p) ==
    IF Len(p) = 4 THEN p
    ELSE IF p[2] >= LimbSign THEN p \o <<LimbMax, LimbMax>> ELSE p \o <<0, 0>>

\* truncation of a 64-bit pattern to 32 bits
Trunc32(p) == <<p[1], p[2]>>

RECURSIVE AddLimbs(_, _, _, _)
\* limbs i.. of a + b + carry, wrapping at the width of a
AddLimbs(a, b, i, carry) ==
    IF i > Len(a) THEN <<>>
    ELSE LET t == a[i] + b[i] + carry
         IN <<t % LimbBase>> \o AddLimbs(a, b, i + 1, t \div LimbBase)

AddW(a, b) == AddLimbs(a, b, 1, 0)
NotW(a) == [i \in DOMAIN a |-> LimbMax - a[i]]
SubW(a, b) == AddLimbs(a, NotW(b), 1, 1)

IsNegW(a) == a[Len(a)] >= LimbSign

RECURSIVE ULtFrom(_, _, _)
ULtFrom(a, b, i) ==
    IF i = 0 THEN FALSE
    ELSE IF a[i] # b[i] THEN a[i] < b[i] ELSE ULtFrom(a, b, i - 1)

\* unsigned and signed "less than" on patterns of the same width
ULtW(a, b) == ULtFrom(a, b, Len(a))
SLtW(a, b) == IF IsNegW(a) # IsNegW(b) THEN IsNegW(a) ELSE ULtW(a, b)
SGeW(a, b) == ~SLtW(a, b)

\* x >> 16 of an int64_t (arithmetic)
Asr16(a) == <<a[2], a[3], a[4], IF IsNegW(a) THEN LimbMax ELSE 0>>

\* uint32_t x << 1 and x >> k (k < 16), wrapping at 32 bits
Shl32by1(v) == <<(v[1] * 2) % LimbBase, (v[2] * 2 + v[1] \div LimbSign) % LimbBase>>
Shr32(v, k) ==
    IF k >= 16 THEN <<v[2] \div 2^(k - 16), 0>>
    ELSE <<v[1] \div 2^k + (v[2] % 2^k) * 2^(16 - k), v[2] \div 2^k>>

RECURSIVE Shl32(_, _)
Shl32(v, k) == IF k = 0 THEN v ELSE Shl32(Shl32by1(v), k - 1)

\* the 32-bit product <<low, high>> of two limbs; b is split into bytes so
\* that no intermediate product leaves the integers the checker computes with
MulLimb(a, b) ==
    LET x == a * (b % 256)
        y == a * (b \div 256)
        t == x + 256 * (y % 256)
    IN <<t % LimbBase, (t \div LimbBase + y \div 256) % LimbBase>>

\* uint32_t multiplication, wrapping at 32 bits
Mul32(a, b) ==
    LET p00 == MulLimb(a[1], b[1])
    IN <<p00[1],
         (p00[2] + MulLimb(a[1], b[2])[1] + MulLimb(a[2], b[1])[1]) % LimbBase>>

(***************************************************************************)
(* The input graph: nodes of an address expression.                        *)
(***************************************************************************)
Nullptr == 0

RegNodes == {[op |-> "CopyFromReg", reg |-> r] : r \in 1..NumRegs}
FrameIndexNodes == {[op |-> "FrameIndex", idx |-> i] : i \in 0..(NumFrameIndex - 1)}
ConstantNodes ==
    {[op |-> "Constant", vt |-> "i32", val |-> I32(v)] : v \in (1..MaxImm) \cup {-4}}
GlobalWrappers ==
    {[op |-> "Wrapper", N0 |-> [op |-> "GlobalAddress", gv |-> g, off |-> g]] :
        g \in 1..NumGlobals}
OtherWrapped == {"ExternalSymbol", "BlockAddress", "ConstantPool", "JumpTable"}
OtherWrappers == {[op |-> "Wrapper", N0 |-> [op |-> k]] : k \in OtherWrapped}
WrapperNodes == GlobalWrappers \cup OtherWrappers
Leaves == RegNodes \cup FrameIndexNodes \cup ConstantNodes \cup WrapperNodes
\* the leaves of the longer add chains: one register, one frame index and
\* the constants
AddLeaves ==
    {[op |-> "CopyFromReg", reg |-> 1], [op |-> "FrameIndex", idx |-> 0]}
        \cup ConstantNodes

AddOf(X, Y) == {[op |-> "ADD", l |-> x, r |-> y] : x \in X, y \in Y}

\* x | c with a constant right operand.  lhsClear is what the known-zero-bits
\* analysis answers for (x, c); for a constant x every bit is known, so the
\* answer is x & c = 0.
OrConstOf(X) ==
    {n \in {[op |-> "OR", l |-> x, r |-> c, lhsClear |-> p] :
                x \in X, c \in ConstantNodes, p \in BOOLEAN} :
        n.l.op = "Constant" => (n.lhsClear <=> IsZeroW(AndW(n.l.val, n.r.val)))}

\* x | r with a non-constant right operand
OrRegOf(X) ==
    {[op |-> "OR", l |-> x, r |-> y, lhsClear |-> FALSE] : x \in X, y \in RegNodes}

BinOf(X, Y) == AddOf(X, Y) \cup AddOf(Y, X)

\* expressions with two and three leaves, any operators and leaves
Expr2 == AddOf(Leaves, Leaves) \cup OrConstOf(Leaves) \cup OrRegOf(Leaves)
Expr3 == BinOf(Leaves, Expr2) \cup OrConstOf(Expr2) \cup OrRegOf(Expr2)

\* chained additions of a register, a frame index and constants with up to
\* four leaves, in every grouping and operand order
AddExpr2 == AddOf(AddLeaves, AddLeaves)
AddExpr3 == BinOf(AddLeaves, AddExpr2)
AddExpr4 == BinOf(AddLeaves, AddExpr3) \cup AddOf(AddExpr2, AddExpr2)

(***************************************************************************)
(* TriCoreISelAddressMode.                                                 *)
(***************************************************************************)
\* Base.FrameIndex is not initialised by the constructor: its first value
\* is indeterminate.
IndeterminateInt == {-1, 0}

TriCoreISelAddressMode(fi) ==
    [BaseType |-> "RegBase", BaseReg |-> <<>>, FrameIndex |-> fi,
     Disp |-> 0, GV |-> Nullptr, CP |-> Nullptr, BlockAddr |-> Nullptr,
     ES |-> Nullptr, JT |-> -1, Align |-> 0]

\* mutant: a symbol already in the mode is not noticed
hasSymbolicDisplacementNever(AM) == FALSE

hasSymbolicDisplacement(AM) ==
    AM.GV # Nullptr \/ AM.CP # Nullptr \/ AM.ES # Nullptr \/ AM.JT # -1

MatchWrapper(N, AM) ==
    IF hasSymbolicDisplacement(AM)
    THEN [ret |-> TRUE, AM |-> AM]
    ELSE IF N.N0.op = "GlobalAddress"
         THEN [ret |-> FALSE,
               AM |-> [AM EXCEPT !.GV = N.N0.gv, !.Disp = @ + N.N0.off]]
         ELSE [ret |-> FALSE, AM |-> AM]

\* mutant: an occupied base slot is overwritten
MatchAddressBaseOverwrite(N, AM) ==
    [ret |-> FALSE, AM |-> [AM EXCEPT !.BaseType = "RegBase", !.BaseReg = <<N>>]]

MatchAddressBase(N, AM) ==
    IF AM.BaseType # "RegBase" \/ AM.BaseReg # <<>>
    THEN [ret |-> TRUE, AM |-> AM]
    ELSE [ret |-> FALSE,
          AM |-> [AM EXCEPT !.BaseType = "RegBase", !.BaseReg = <<N>>]]

\* mutant: the constant replaces the displacement instead of adding to it
MatchConstantAssign(N, AM) ==
    [ret |-> FALSE, AM |-> [AM EXCEPT !.Disp = SExtValue32(N.val)]]

\* case ISD::Constant of MatchAddress
MatchConstant(N, AM) ==
    [ret |-> FALSE, AM |-> [AM EXCEPT !.Disp = @ + SExtValue32(N.val)]]

\* case ISD::FrameIndex of MatchAddress, up to the break
MatchFrameIndex(N, AM) ==
    IF AM.BaseType = "RegBase" /\ AM.BaseReg = <<>>
    THEN [ret |-> FALSE,
          AM |-> [AM EXCEPT !.BaseType = "FrameIndexBase", !.FrameIndex = N.idx]]
    ELSE [ret |-> TRUE, AM |-> AM]

\* mutant: the snapshot is not restored
RestoreSkipped(AM, Backup) == AM

\* "AM = Backup;" after a failed speculative attempt
Restore(AM, Backup) == Backup

\* mutant: the answer of the analysis is ignored
MaskedValueIsZeroIgnored(N) == TRUE

\* CurDAG->MaskedValueIsZero(N.getOperand(0), CN->getAPIntValue()): the
\* answer of the known-zero-bits analysis is carried by the or node.
MaskedValueIsZero(N) == N.lhsClear

\* the record of one invocation of MatchAddress
Call(N, AM, r) == [N |-> N, in |-> AM, ret |-> r.ret, out |-> r.AM]

RECURSIVE MatchAddress(_, _)
MatchAddress(N, AM) ==
    LET Finish(r, sub) ==
            [ret |-> r.ret, AM |-> r.AM, calls |-> sub \cup {Call(N, AM, r)}]
    IN
    CASE N.op = "Constant" -> Finish(MatchConstant(N, AM), {})
      [] N.op = "Wrapper" ->
            LET w == MatchWrapper(N, AM) IN
            IF ~w.ret THEN Finish(w, {})
            ELSE Finish(MatchAddressBase(N, w.AM), {})
      [] N.op = "FrameIndex" ->
            LET f == MatchFrameIndex(N, AM) IN
            IF ~f.ret THEN Finish(f, {})
            ELSE Finish(MatchAddressBase(N, f.AM), {})
      [] N.op = "ADD" ->
            LET Backup == AM
                a0 == MatchAddress(N.l, AM)
                a1 == MatchAddress(N.r, a0.AM)
            IN
            IF ~a0.ret /\ ~a1.ret
            THEN Finish(a1, a0.calls \cup a1.calls)
            ELSE
              LET c1 == IF a0.ret THEN a0.calls ELSE a0.calls \cup a1.calls
                  AM1 == Restore(IF a0.ret THEN a0.AM ELSE a1.AM, Backup)
                  b1 == MatchAddress(N.r, AM1)
                  b0 == MatchAddress(N.l, b1.AM)
              IN
              IF ~b1.ret /\ ~b0.ret
              THEN Finish(b0, c1 \cup b1.calls \cup b0.calls)
              ELSE
                LET c2 == IF b1.ret THEN b1.calls ELSE b1.calls \cup b0.calls
                    AM2 == Restore(IF b1.ret THEN b1.AM ELSE b0.AM, Backup)
                IN Finish(MatchAddressBase(N, AM2), c1 \cup c2)
      [] N.op = "OR" ->
            IF N.r.op = "Constant"
            THEN
              LET Backup == AM
                  Offset == SExtValue32(N.r.val)
                  x == MatchAddress(N.l, AM)
              IN
              IF ~x.ret /\ x.AM.GV = Nullptr /\ MaskedValueIsZero(N)
              THEN Finish([ret |-> FALSE,
                           AM |-> [x.AM EXCEPT !.Disp = @ + Offset]], x.calls)
              ELSE Finish(MatchAddressBase(N, Restore(x.AM, Backup)), x.calls)
            ELSE Finish(MatchAddressBase(N, AM), {})
      [] OTHER -> Finish(MatchAddressBase(N, AM), {})

(***************************************************************************)
(* SelectConstant and its helpers.                                         *)
(***************************************************************************)
RECURSIVE Ffs16(_)
\* one plus the index of the least significant 1-bit of a non-zero limb
Ffs16(x) == IF x % 2 = 1 THEN 1 ELSE 1 + Ffs16(x \div 2)

\* __builtin_ffs
getFFS(v) ==
    IF v[1] # 0 THEN Ffs16(v[1])
    ELSE IF v[2] # 0 THEN 16 + Ffs16(v[2])
    ELSE 0

\* 0x55555555, 0x33333333, 0x0F0F0F0F, 0x01010101 as limbs
Mask5 == <<21845, 21845>>
Mask3 == <<13107, 13107>>
MaskF == <<3855, 3855>>
Ones01 == <<257, 257>>

getNumSetBits(v) ==
    LET v1 == SubW(v, AndW(Shr32(v, 1), Mask5))
        v2 == AddW(AndW(v1, Mask3), AndW(Shr32(v1, 2), Mask3))
        c == Shr32(Mul32(AndW(AddW(v2, Shr32(v2, 4)), MaskF), Ones01), 24)
    IN c[1]

RECURSIVE getNumConsecutiveOnes(_)
\* the loop "while (in) { in = in & (in << 1); count++; }".  The shift is
\* done on the 32-bit pattern: every compiler this builds with emits a
\* plain shift for a signed <<, so the bit shifted out is dropped.
getNumConsecutiveOnes(in) ==
    IF IsZeroW(in) THEN 0
    ELSE 1 + getNumConsecutiveOnes(AndW(in, Shl32by1(in)))

\* the loop "for (i = 0; i < base; i++) result = result << 1;" on an int
ipow(base) == Shl32(<<1, 0>>, base)

\* CurDAG->getTargetConstant(p, ..., MVT::i32) of a 64-bit pattern
TargetConstant(p) == [kind |-> "TargetConstant", val |-> Trunc32(p)]

\* CurDAG->getMachineNode(opc, ..., operands)
MachineNode(opc, ops) == [kind |-> "MachineNode", opc |-> opc, ops |-> ops]

\* "return SelectCode(N);": the generic selector takes the node
SelectCode == [kind |-> "SelectCode"]

\* "return Move;" with Move never assigned
UninitializedMove == [kind |-> "Uninitialized"]

\* getMachineNode(TriCore::IMASKrcpw, N, MVT::i64, _constVal, _pos, _width)
IMASK(constVal, pos, width) ==
    MachineNode("IMASKrcpw",
                <<TargetConstant(constVal), TargetConstant(I64(pos)),
                  TargetConstant(I64(width))>>)

\* mutant: a low-half mask wider than the 4-bit field is let through
LowMaskTooWideNever(numConsecBits) == FALSE

\* "if (numConsecBits > 4) return SelectCode(N);"
LowMaskTooWide(numConsecBits) == numConsecBits > 4

\* the branch for a low half only (higherByte == 0 && lowerByte != 0)
SelectLowMask(lowerByte) ==
    LET posLSB == getFFS(lowerByte) - 1
        numSetBits == getNumSetBits(lowerByte)
        numConsecBits == getNumConsecutiveOnes(lowerByte)
        Const4Val == SExt64(SubW(ipow(numConsecBits), <<1, 0>>))
    IN IF numSetBits # numConsecBits THEN SelectCode
       ELSE IF LowMaskTooWide(numConsecBits) THEN SelectCode
       ELSE IMASK(Const4Val, posLSB, 0)

\* mutant: position and width are swapped in the operand list
SelectHighMaskSwapped(higherByte) ==
    LET posLSB == getFFS(higherByte) - 1
        numSetBits == getNumSetBits(higherByte)
        numConsecBits == getNumConsecutiveOnes(higherByte)
    IN IF numSetBits # numConsecBits THEN SelectCode
       ELSE IF posLSB + numConsecBits > 31 THEN SelectCode
       ELSE IMASK(I64(0), numConsecBits, posLSB)

\* the branch for a high half only (higherByte != 0 && lowerByte == 0)
SelectHighMask(higherByte) ==
    LET posLSB == getFFS(higherByte) - 1
        numSetBits == getNumSetBits(higherByte)
        numConsecBits == getNumConsecutiveOnes(higherByte)
    IN IF numSetBits # numConsecBits THEN SelectCode
       ELSE IF posLSB + numConsecBits > 31 THEN SelectCode
       ELSE IMASK(I64(0), posLSB, numConsecBits)

\* mutant: the low part is not sign-extended before it is subtracted
HiShiftNoSignExtension(ImmSVal, ImmLo) ==
    LET d == Asr16(SubW(ImmSVal, I64(ImmLo)))
    IN IF IsNegW(d) THEN AddW(I64(LimbBase), d) ELSE d

\* hiShift = (ImmSVal - (int16_t)ImmLo) >> 16, plus 65536 when negative
HiShift(ImmSVal, ImmLo) ==
    LET ImmLo_ext64 == I64(IF ImmLo >= LimbSign THEN ImmLo - LimbBase ELSE ImmLo)
        d == Asr16(SubW(ImmSVal, ImmLo_ext64))
    IN IF IsNegW(d) THEN AddW(I64(LimbBase), d) ELSE d

\* mutant: the all-zero test comes after the move-high test, which takes it
SelectMoveZeroAsHigh(ImmHiZero, ImmLo, ConstHi) ==
    IF ImmLo = 0 THEN <<MachineNode("MOVHrlc", <<ConstHi>>)>> ELSE <<>>

\* the two branches for a zero low half; <<>> when neither applies
SelectMoveHigh(ImmHiZero, ImmLo, ConstHi) ==
    IF ~ImmHiZero /\ ImmLo = 0 THEN <<MachineNode("MOVHrlc", <<ConstHi>>)>>
    ELSE IF ImmHiZero /\ ImmLo = 0 THEN <<MachineNode("MOVrlc", <<ConstHi>>)>>
    ELSE <<>>

\* the move and move/add selection that follows the i64 block
SelectMove(ImmVal, ImmSVal) ==
    LET ImmLo == ImmVal[1]
        ImmSLo == ImmSVal[1] - LimbBase
        ImmHiZero == ImmVal[2] = 0
        ConstLo == TargetConstant(I64(ImmLo))
        ConstSImm == TargetConstant(ImmSVal)
        ConstEImm == TargetConstant(ImmVal)
        ConstHi == TargetConstant(HiShift(ImmSVal, ImmLo))
        Move == MachineNode("MOVHrlc", <<ConstHi>>)
    IN
    IF ImmHiZero /\ ImmLo # 0
    THEN IF SGeW(ImmSVal, I64(0)) /\ SLtW(ImmSVal, I64(32768))
         THEN MachineNode("MOVrlc", <<ConstEImm>>)
         ELSE IF SGeW(ImmSVal, I64(32768)) /\ SLtW(ImmSVal, I64(65536))
         THEN MachineNode("MOVUrlc", <<ConstEImm>>)
         ELSE UninitializedMove
    ELSE IF SelectMoveHigh(ImmHiZero, ImmLo, ConstHi) # <<>>
    THEN SelectMoveHigh(ImmHiZero, ImmLo, ConstHi)[1]
    ELSE IF SGeW(ImmSVal, I64(-32768)) /\ SLtW(ImmSVal, I64(0))
    THEN MachineNode("MOVrlc", <<ConstSImm>>)
    ELSE IF (ImmSLo >= -8 /\ ImmSLo < 8) \/ ImmLo < 8
    THEN MachineNode("ADDsrc", <<Move, ConstLo>>)
    ELSE IF ImmLo >= 8 /\ ImmLo < 256
    THEN MachineNode("ADDrc", <<Move, ConstLo>>)
    ELSE MachineNode("ADDIrlc", <<Move, ConstLo>>)

\* SelectConstant(N) for a constant node of type i32 or i64
SelectConstantOf(N) ==
    LET ImmVal == ZExt64(N.val)
        ImmSVal == SExt64(N.val)
        lowerByte == <<ImmVal[1], ImmVal[2]>>
        higherByte == <<ImmVal[3], ImmVal[4]>>
    IN
    IF N.vt = "i64" /\ IsZeroW(ImmVal) THEN IMASK(I64(0), 0, 0)
    ELSE IF N.vt = "i64" /\ (IsNegW(ImmSVal)
                \/ (~IsZeroW(higherByte) /\ ~IsZeroW(lowerByte)))
    THEN SelectCode
    ELSE IF N.vt = "i64" /\ IsZeroW(higherByte) /\ ~IsZeroW(lowerByte)
    THEN SelectLowMask(lowerByte)
    ELSE IF N.vt = "i64" /\ ~IsZeroW(higherByte) /\ IsZeroW(lowerByte)
    THEN SelectHighMask(higherByte)
    ELSE SelectMove(ImmVal, ImmSVal)

(***************************************************************************)
(* The constant nodes handed to SelectConstant.                            *)
(***************************************************************************)
Near(marks, span) ==
    UNION {{x \in (m - span)..(m + span) : x >= 0 /\ x <= LimbMax} : m \in marks}

LoHalves == Near({0, 8, 256, 32768, 65528, 65535}, LoSpan)
HiHalves == Near({0, 32768, 65535}, HiSpan)

Consts32 ==
    {[op |-> "Constant", vt |-> "i32", val |-> <<l, h>>] :
        l \in LoHalves, h \in HiHalves}

\* the limb with bits a .. b set (none when a > b)
RunLimb(a, b) == IF a > b THEN 0 ELSE 2^(b + 1) - 2^a

Min2(a, b) == IF a < b THEN a ELSE b
Max2(a, b) == IF a > b THEN a ELSE b

\* the 32-bit pattern with bits p .. p + n - 1 set
Run32(p, n) ==
    <<RunLimb(p, Min2(p + n - 1, 15)), RunLimb(Max2(p, 16) - 16, p + n - 17)>>

\* every half that is one contiguous run of set bits
Runs == UNION {{Run32(p, n) : n \in 1..(32 - p)} : p \in 0..31}

\* halves with a hole: a short run, at least one clear bit, a single bit
Gapped ==
    UNION {UNION {{AddW(Run32(p, n), Run32(q, 1)) : q \in (p + n + 1)..31} :
                     n \in 1..GapRun} : p \in 0..31}

Halves == Runs \cup Gapped
SomeHalves == {Run32(0, 1), Run32(3, 2), Run32(15, 2), Run32(30, 1), Run32(31, 1)}

Consts64 ==
    {[op |-> "Constant", vt |-> "i64", val |-> lo \o hi] :
        lo \in Halves \cup {<<0, 0>>}, hi \in SomeHalves \cup {<<0, 0>>}}
    \cup
    {[op |-> "Constant", vt |-> "i64", val |-> <<0, 0>> \o hi] : hi \in Halves}

ConstNodes == Consts32 \cup Consts64
(***************************************************************************)
VARIABLES
    pc,       \* the entry point about to run on Node, or "done"
    Node,     \* the node handed to the selector
    fi0,      \* the indeterminate first value of AM.Base.FrameIndex
    matched,  \* return value of SelectAddr
    Base,     \* SelectAddr's Base operand (by reference)
    Disp,     \* SelectAddr's Disp operand (by reference)
    AM,       \* the addressing mode SelectAddr_new built
    calls,    \* the invocations of MatchAddress SelectAddr_new caused
    Result    \* what SelectConstant returned

vars == <<pc, Node, fi0, matched, Base, Disp, AM, calls, Result>>

NullOperand == [kind |-> "null"]
NoResult == [kind |-> "none"]

\* CurDAG->getTargetConstant(v, ..., MVT::i32) of a 64-bit integer
TargetConstant32(v) == [kind |-> "TargetConstant", val |-> I32(v)]

InitAddr ==
    /\ pc = "SelectAddr"
    /\ \/ Node \in Leaves
       \/ Node \in Expr2
       \/ Node \in Expr3
       \/ Node \in AddExpr4
    /\ fi0 \in IndeterminateInt
    /\ matched = FALSE
    /\ Base = NullOperand
    /\ Disp = NullOperand
    /\ AM = TriCoreISelAddressMode(fi0)
    /\ calls = {}
    /\ Result = NoResult

\* SelectAddr forwards to SelectAddr_new (the rest of its body is dead code)
SelectAddr_new ==
    /\ pc = "SelectAddr"
    /\ LET m == MatchAddress(Node, TriCoreISelAddressMode(fi0))
           am == IF m.AM.BaseType = "RegBase" /\ m.AM.BaseReg = <<>>
                 THEN [m.AM EXCEPT !.BaseReg = <<[op |-> "Register", reg |-> 0]>>]
                 ELSE m.AM
           b == IF am.BaseType = "FrameIndexBase"
                THEN [kind |-> "TargetFrameIndex", idx |-> am.FrameIndex]
                ELSE [kind |-> "Node", node |-> am.BaseReg[1]]
       IN
       /\ calls' = m.calls
       /\ IF m.ret
          THEN /\ matched' = FALSE
               /\ AM' = m.AM
               /\ UNCHANGED <<Base, Disp>>
          ELSE /\ matched' = TRUE
               /\ AM' = am
               /\ Base' = IF am.GV # Nullptr
                          THEN [kind |-> "Node", node |-> Node] ELSE b
               /\ Disp' = TargetConstant32(am.Disp)
    /\ pc' = "done"
    /\ UNCHANGED <<Node, fi0, Result>>

InitConst ==
    /\ pc = "SelectConstant"
    /\ Node \in ConstNodes
    /\ fi0 \in {0}
    /\ matched = FALSE
    /\ Base = NullOperand
    /\ Disp = NullOperand
    /\ AM = TriCoreISelAddressMode(fi0)
    /\ calls = {}
    /\ Result = NoResult

\* Select(N) for an ISD::Constant node: "return SelectConstant(N);"
SelectConstant ==
    /\ pc = "SelectConstant"
    /\ Result' = SelectConstantOf(Node)
    /\ pc' = "done"
    /\ UNCHANGED <<Node, fi0, matched, Base, Disp, AM, calls>>

NextAddr == SelectAddr_new
NextConst == SelectConstant

SpecConst == InitConst /\ [][NextConst]_vars

Init == InitAddr \/ InitConst
Next == SelectAddr_new \/ SelectConstant
Spec == Init /\ [][Next]_vars

SpecAddr == InitAddr /\ [][NextAddr]_vars

(***************************************************************************)
(* Vocabulary of the properties of the address matcher.                    *)
(***************************************************************************)
Done == pc = "done"

BaseOccupied(am) == am.BaseType # "RegBase" \/ am.BaseReg # <<>>

CarriesSymbol(am) ==
    am.GV # Nullptr \/ am.CP # Nullptr \/ am.ES # Nullptr \/ am.JT # -1

\* the invocations of MatchAddress on nodes of one kind
CallsOn(kind) == {c \in calls : c.N.op = kind}

\* the node was taken as an opaque register base by MatchAddressBase
TakenAsBase(c) ==
    ~c.ret /\ c.out = [c.in EXCEPT !.BaseType = "RegBase", !.BaseReg = <<c.N>>]

RECURSIVE LeavesOfKind(_, _)
\* number of leaves of kind k in an expression
LeavesOfKind(n, k) ==
    IF n.op \in {"ADD", "OR"}
    THEN LeavesOfKind(n.l, k) + LeavesOfKind(n.r, k)
    ELSE IF n.op = k THEN 1 ELSE 0

RECURSIVE IsAddChain(_)
IsAddChain(n) ==
    IF n.op = "ADD" THEN IsAddChain(n.l) /\ IsAddChain(n.r)
    ELSE n.op \in {"CopyFromReg", "FrameIndex", "Constant"}

RECURSIVE ConstantSum(_)
\* the sum of the sign-extended constant leaves of an add chain
ConstantSum(n) ==
    IF n.op = "ADD" THEN ConstantSum(n.l) + ConstantSum(n.r)
    ELSE IF n.op = "Constant" THEN SExtValue32(n.val) ELSE 0

RECURSIVE TheBaseLeaf(_)
\* the non-constant leaf of an add chain that has exactly one
TheBaseLeaf(n) ==
    IF n.op = "ADD"
    THEN IF LeavesOfKind(n.l, "Constant") = LeavesOfKind(n.l, "CopyFromReg")
              + LeavesOfKind(n.l, "FrameIndex") + LeavesOfKind(n.l, "Constant")
         THEN TheBaseLeaf(n.r) ELSE TheBaseLeaf(n.l)
    ELSE n

NonConstLeaves(n) == LeavesOfKind(n, "CopyFromReg") + LeavesOfKind(n, "FrameIndex")

\* the mode's base is exactly the leaf b
BaseIsLeaf(am, b) ==
    IF b.op = "FrameIndex"
    THEN am.BaseType = "FrameIndexBase" /\ am.FrameIndex = b.idx /\ am.BaseReg = <<>>
    ELSE am.BaseType = "RegBase" /\ am.BaseReg = <<b>>

(***************************************************************************)
(* C1.                                                                     *)
(***************************************************************************)
\* C1: whenever an invocation of MatchAddress returns failure, the mode after
\* the call equals the mode before the call field for field, whatever the
\* recursive attempts (add order 1, add order 2, or-as-add) did in between.
C1_FailureRestoresMode ==
    Done => \A c \in calls : c.ret => c.out = c.in

\* a failing add whose first operand had matched and changed the mode
C1_Witness ==
    /\ Done
    /\ \E c \in CallsOn("ADD") :
          /\ c.ret
          /\ \E d \in calls :
                d.N = c.N.l /\ d.in = c.in /\ ~d.ret /\ d.out # d.in

(***************************************************************************)
(* C2.                                                                     *)
(***************************************************************************)
\* C2 (as stated): for every chain of additions whose leaves are a register,
\* a frame index and integer constants, the match on a fresh mode succeeds,
\* the base is the frame index or the register leaf, never an intermediate
\* add node, and the displacement is the exact sum of the constant leaves.
C2_Original ==
    (Done /\ IsAddChain(Node)
          /\ LeavesOfKind(Node, "CopyFromReg") <= 1
          /\ LeavesOfKind(Node, "FrameIndex") <= 1
          /\ NonConstLeaves(Node) >= 1)
    => /\ matched
       /\ AM.Disp = ConstantSum(Node)
       /\ \/ AM.BaseType = "FrameIndexBase"
          \/ AM.BaseType = "RegBase" /\ Len(AM.BaseReg) = 1
                /\ AM.BaseReg[1].op = "CopyFromReg"

\* C2 (amended): for every chain of additions whose leaves are integer
\* constants and exactly one non-constant leaf (one register or one frame
\* index), in any grouping and operand order, the match on a fresh mode
\* succeeds, the base is that leaf and the displacement is the exact sum of
\* the sign-extended constant leaves.
C2_SingleBaseChain ==
    (Done /\ IsAddChain(Node) /\ NonConstLeaves(Node) = 1)
    => /\ matched
       /\ BaseIsLeaf(AM, TheBaseLeaf(Node))
       /\ AM.Disp = ConstantSum(Node)
       /\ ~CarriesSymbol(AM)

\* a chain with the base leaf nested between three constants
C2_Witness ==
    /\ Done /\ matched
    /\ IsAddChain(Node) /\ NonConstLeaves(Node) = 1
    /\ LeavesOfKind(Node, "Constant") = 3
    /\ Node.l.op = "ADD" /\ Node.r.op = "ADD"
    /\ AM.Disp = ConstantSum(Node) /\ AM.Disp # 0

(***************************************************************************)
(* C3.                                                                     *)
(***************************************************************************)
RegPlusReg == AddOf(RegNodes, RegNodes)

\* C3 (as stated): an add of two opaque register values, matched on a fresh
\* mode, fails, and SelectAddr reports no match.
C3_Original ==
    (Done /\ Node \in RegPlusReg) => ~matched

\* C3 (amended): for an add of two opaque register values both operand
\* orders fail (the second operand finds the base slot taken) and the mode
\* is restored; the add node itself is then offered as the base: the match
\* fails exactly when the base slot was already occupied, and on a fresh
\* mode it succeeds with the add node as register base and displacement 0,
\* which SelectAddr emits as its operands.
C3_RegPlusRegIsOpaqueBase ==
    Done =>
      /\ \A c \in calls : c.N \in RegPlusReg =>
            /\ c.ret <=> BaseOccupied(c.in)
            /\ c.ret => c.out = c.in
            /\ ~c.ret => TakenAsBase(c)
      /\ Node \in RegPlusReg =>
            /\ matched
            /\ AM = [TriCoreISelAddressMode(fi0) EXCEPT !.BaseReg = <<Node>>]
            /\ Base = [kind |-> "Node", node |-> Node]
            /\ Disp = TargetConstant32(0)

\* reg_a + reg_b selected as an address, both operand orders having failed
C3_Witness ==
    /\ Done /\ Node \in RegPlusReg /\ Node.l # Node.r /\ matched
    /\ \E c \in calls : c.N = Node.r /\ c.ret /\ c.in.BaseReg = <<Node.l>>
    /\ \E c \in calls : c.N = Node.l /\ c.ret /\ c.in.BaseReg = <<Node.r>>

(***************************************************************************)
(* C4.                                                                     *)
(***************************************************************************)
\* the invocations on X | C with a constant right operand
OrConstCalls == {c \in CallsOn("OR") : c.N.r.op = "Constant"}

\* the invocation on the left operand X that the or case makes first
LhsCalls(c) == {d \in calls : d.N = c.N.l /\ d.in = c.in}

\* X | C was handled as X + C: X was matched into the mode and C was added
\* to the displacement
Folded(c) ==
    /\ ~c.ret
    /\ \E d \in LhsCalls(c) :
          ~d.ret /\ c.out = [d.out EXCEPT !.Disp = @ + SExtValue32(c.N.r.val)]

\* X | C was left alone: nothing of it reached the displacement and the or
\* node as a whole was offered as an opaque base register
LeftOpaque(c) ==
    /\ c.ret <=> BaseOccupied(c.in)
    /\ c.ret => c.out = c.in
    /\ ~c.ret => TakenAsBase(c)

SecondSymbolCalls == {c \in CallsOn("Wrapper") : CarriesSymbol(c.in)}

\* C5 (as stated): MatchAddress on a wrapper fails whenever the mode already
\* carries a symbolic reference, whatever the base slot holds; so no
\* expression with two wrappers is matched as a whole.
C5_Original ==
    Done =>
      /\ \A c \in SecondSymbolCalls : c.ret
      /\ LeavesOfKind(Node, "Wrapper") >= 2 => ~matched

\* C5 (amended): MatchAddress on a wrapper in a mode that already carries a
\* symbolic reference never folds the wrapper as a symbol (symbolic
\* reference and displacement stay as they were); it fails exactly when the
\* base slot is occupied, and with a free base slot it succeeds by taking
\* the wrapper node as the register base.  A matched expression therefore
\* folds at most one wrapper as the mode's symbolic reference.
C5_SecondSymbolBecomesBase ==
    Done => \A c \in SecondSymbolCalls :
              /\ c.out.GV = c.in.GV /\ c.out.Disp = c.in.Disp
              /\ c.ret <=> BaseOccupied(c.in)
              /\ c.ret => c.out = c.in
              /\ ~c.ret => TakenAsBase(c)

\* global + global matched as a whole: the second wrapper became the base
C5_Witness ==
    /\ Done /\ matched
    /\ Node.op = "ADD" /\ Node.l \in GlobalWrappers /\ Node.r \in GlobalWrappers
    /\ Node.l # Node.r
    /\ AM.GV = Node.l.N0.gv /\ AM.BaseReg = <<Node.r>>
    /\ \E c \in SecondSymbolCalls : ~c.ret

(***************************************************************************)
(* C10.                                                                    *)
(***************************************************************************)
\* C10: a successful match on a wrapper node always accounts for it: the
\* call set the mode's symbolic reference or took the wrapper as the base,
\* it never returns success with the mode unchanged; so SelectAddr never
\* emits the null register as base for an address that contains a symbol.
C10_NoSymbolDropped ==
    Done =>
      /\ \A c \in CallsOn("Wrapper") :
            ~c.ret => \/ ~CarriesSymbol(c.in) /\ CarriesSymbol(c.out)
                      \/ TakenAsBase(c)
      /\ (matched /\ LeavesOfKind(Node, "Wrapper") >= 1)
            => Base # [kind |-> "Node", node |-> [op |-> "Register", reg |-> 0]]

(***************************************************************************)
(* Vocabulary of the properties of the constant materializer.              *)
(***************************************************************************)
\* bit i of a 32-bit pattern
Bit(v, i) == IF i < 16 THEN (v[1] \div 2^i) % 2 ELSE (v[2] \div 2^(i - 16)) % 2
BitsOf(v) == {i \in 0..31 : Bit(v, i) = 1}

LsbIndex(v) == CHOOSE i \in BitsOf(v) : \A j \in BitsOf(v) : i <= j
MsbIndex(v) == CHOOSE i \in BitsOf(v) : \A j \in BitsOf(v) : i >= j
RunLength(v) == Cardinality(BitsOf(v))

\* the set bits of v form one contiguous run
IsOneRun(v) == BitsOf(v) # {} /\ BitsOf(v) = LsbIndex(v)..MsbIndex(v)

LowHalf(N) == <<N.val[1], N.val[2]>>
HighHalf(N) == <<N.val[3], N.val[4]>>

IsConst64 == Node.op = "Constant" /\ Node.vt = "i64"
IsConst32 == Node.op = "Constant" /\ Node.vt = "i32"

\* an operand holding the unsigned number k
Imm(k) == [kind |-> "TargetConstant", val |-> <<k, 0>>]

\* the unsigned value of an operand that fits a limb
ImmValue(o) == o.val[1]

IsIMASK(r) == r.kind = "MachineNode" /\ r.opc = "IMASKrcpw"

\* the 64-bit value a masked insert (value, position, width) produces:
\* low word = value << position, high word = (2^width - 1) << position
EvalIMASK(r) ==
    LET value == r.ops[1].val
        position == ImmValue(r.ops[2])
        width == ImmValue(r.ops[3])
    IN Shl32(value, position)
         \o Shl32(SubW(Shl32(<<1, 0>>, width), <<1, 0>>), position)

\* the i64 constants of C6: one half zero, the other one run that fits
LowRunCase ==
    /\ IsConst64 /\ IsZeroW(HighHalf(Node)) /\ IsOneRun(LowHalf(Node))
    /\ RunLength(LowHalf(Node)) <= 4
HighRunCase ==
    /\ IsConst64 /\ IsZeroW(LowHalf(Node)) /\ IsOneRun(HighHalf(Node))
    /\ LsbIndex(HighHalf(Node)) + RunLength(HighHalf(Node)) <= 31

(***************************************************************************)
(* C6.                                                                     *)
(***************************************************************************)
\* C6: for every 64-bit constant with exactly one non-zero half whose set
\* bits form one run (of length <= 4 in the low half, with lsbIndex +
\* runLength <= 31 in the high half), exactly one masked insert is emitted,
\* with operands (2^runLength - 1, lsbIndex, 0) for the low half and
\* (0, lsbIndex, runLength) for the high half, and evaluating it gives back
\* the 64-bit value.
C6_MaskedInsertReproducesValue ==
    /\ (Done /\ LowRunCase) =>
          /\ Result = MachineNode("IMASKrcpw",
                          <<Imm(2^RunLength(LowHalf(Node)) - 1),
                            Imm(LsbIndex(LowHalf(Node))), Imm(0)>>)
          /\ EvalIMASK(Result) = Node.val
    /\ (Done /\ HighRunCase) =>
          /\ Result = MachineNode("IMASKrcpw",
                          <<Imm(0), Imm(LsbIndex(HighHalf(Node))),
                            Imm(RunLength(HighHalf(Node)))>>)
          /\ EvalIMASK(Result) = Node.val

\* a high half with a run longer than four bits that starts above bit 0
C6_Witness ==
    /\ Done /\ HighRunCase
    /\ RunLength(HighHalf(Node)) > 4 /\ LsbIndex(HighHalf(Node)) > 0
    /\ IsIMASK(Result)

(***************************************************************************)
(* C7.                                                                     *)
(***************************************************************************)
\* C7: every masked insert emitted for a 64-bit constant has position in
\* [0,31], width in [0,31], position + width <= 31 and a value in [0,15];
\* constants that would need anything else go to the generic selector.
C7_MaskedInsertWithinEncoding ==
    (Done /\ IsConst64) =>
      /\ IsIMASK(Result) =>
            /\ \A i \in 1..3 : Result.ops[i].val[2] = 0
            /\ ImmValue(Result.ops[1]) \in 0..15
            /\ ImmValue(Result.ops[2]) \in 0..31
            /\ ImmValue(Result.ops[3]) \in 0..31
            /\ ImmValue(Result.ops[2]) + ImmValue(Result.ops[3]) <= 31
      /\ ~IsIMASK(Result) => Result = SelectCode
      /\ (IsZeroW(HighHalf(Node)) /\ RunLength(LowHalf(Node)) > 4)
            => Result = SelectCode
      /\ IsNegW(Node.val) => Result = SelectCode

\* a masked insert at the edge of the envelope: a high-half run that ends
\* at bit 30
C7_Witness ==
    /\ Done /\ IsConst64 /\ IsIMASK(Result)
    /\ ImmValue(Result.ops[3]) > 4
    /\ ImmValue(Result.ops[2]) + ImmValue(Result.ops[3]) = 31

(***************************************************************************)
(* C8.                                                                     *)
(***************************************************************************)
\* the sign extension to 32 bits of the low k bits of an operand (k <= 16)
SExtLow(o, k) ==
    LET low == o.val[1] % 2^k
    IN I32(IF low >= 2^(k - 1) THEN low - 2^k ELSE low)

IsMove(r) ==
    /\ r.kind = "MachineNode"
    /\ r.opc \in {"MOVrlc", "MOVUrlc", "MOVHrlc"}
    /\ Len(r.ops) = 1 /\ r.ops[1].kind = "TargetConstant"

IsMoveHighAdd(r) ==
    /\ r.kind = "MachineNode"
    /\ r.opc \in {"ADDsrc", "ADDrc", "ADDIrlc"}
    /\ Len(r.ops) = 2
    /\ IsMove(r.ops[1]) /\ r.ops[1].opc = "MOVHrlc"
    /\ r.ops[2].kind = "TargetConstant"

\* the register value a move leaves
EvalMove(r) ==
    CASE r.opc = "MOVrlc" -> SExtLow(r.ops[1], 16)
      [] r.opc = "MOVUrlc" -> <<r.ops[1].val[1], 0>>
      [] r.opc = "MOVHrlc" -> <<0, r.ops[1].val[1]>>

\* the width of the immediate each add variant sign-extends
AddImmBits(opc) ==
    CASE opc = "ADDsrc" -> 4 [] opc = "ADDrc" -> 9 [] opc = "ADDIrlc" -> 16

\* the register value the returned sequence leaves, modulo 2^32
Eval32(r) ==
    IF IsMove(r) THEN EvalMove(r)
    ELSE AddW(EvalMove(r.ops[1]), SExtLow(r.ops[2], AddImmBits(r.opc)))

\* C8: for every 32-bit constant the result is defined and is either one
\* move (signed, unsigned or high) or one move-high followed by exactly one
\* add variant, and evaluating it gives the value modulo 2^32.
C8_MoveSequenceReconstructsValue ==
    (Done /\ IsConst32) =>
      /\ IsMove(Result) \/ IsMoveHighAdd(Result)
      /\ Eval32(Result) = Node.val

\* move-high plus short add whose immediate stands for a negative number
C8_Witness ==
    /\ Done /\ IsConst32
    /\ IsMoveHighAdd(Result) /\ Result.opc = "ADDsrc"
    /\ Node.val[1] >= 65528
    /\ Result.ops[1].ops[1] = Imm((Node.val[2] + 1) % LimbBase)

(***************************************************************************)
(* C9.                                                                     *)
(***************************************************************************)
\* C9 (as stated): for every 32-bit constant whose low 16 bits are zero,
\* the all-zero value included, exactly one instruction is emitted and it
\* is a move-high carrying the high 16 bits.
C9_Original ==
    (Done /\ IsConst32 /\ Node.val[1] = 0)
    => Result = MachineNode("MOVHrlc", <<Imm(Node.val[2])>>)

\* C9 (amended): for every 32-bit constant whose low 16 bits are zero
\* exactly one instruction is emitted: a move-high carrying the high 16
\* bits when the value is not zero, and a signed move with immediate 0
\* for the all-zero value.
C9_ZeroLowHalfSingleMove ==
    (Done /\ IsConst32 /\ Node.val[1] = 0)
    => Result = IF Node.val[2] # 0
                THEN MachineNode("MOVHrlc", <<Imm(Node.val[2])>>)
                ELSE MachineNode("MOVrlc", <<Imm(0)>>)

\* the all-zero value selected as a signed move of 0
C9_Witness ==
    /\ Done /\ IsConst32 /\ Node.val = <<0, 0>>
    /\ Result.opc = "MOVrlc"

====
